---- MODULE Spec2Model ----
(***************************************************************************)
(* camControl (main.py): a Qt control panel over the v4l2-ctl command.     *)
(*                                                                         *)
(* CameraControl keeps a cache (self.ctrls) of the controls the device     *)
(* lists and reads/writes single controls through the external command.    *)
(* Window mirrors the cache in sliders and toggle buttons.  Qt delivers    *)
(* slider.valueChanged synchronously, so Window.sync re-enters             *)
(* Window.sl_Change whenever it moves a slider: the handlers are modelled  *)
(* as frames of a call stack.                                              *)
(*                                                                         *)
(* Text is modelled as sequences of symbols: a digit or a sign is one      *)
(* symbol, every other word ("brightness", "inactive") is one opaque       *)
(* symbol.  A line of command output is a sequence of such tokens.         *)
(***************************************************************************)
EXTENDS Integers, Sequences, FiniteSets, TLC

VARIABLES
    dev,        \* the camera: control name -> current value (driver state)
    headers,    \* whether this v4l2-ctl prints section headers in its listing
    order,      \* the order in which the device lists its controls
    ctrls,      \* CameraControl.ctrls, an insertion-ordered dict
    sls,        \* Window.sls: slider name -> [value, enabled]
    buttons,    \* Window.buttons / button_status: name -> [status, text]
    stack,      \* the running handler frames, innermost last
    file,       \* the .ccconf file: JSON text, <<>> when nothing was saved
    saved,      \* history: the cache at the time of the last Save
    exc,        \* the exception that ended the event loop, "none" while it runs
    rej,        \* history: writes the device rejected in the running handler
    call        \* the last direct CameraControl call: arguments and outcome

vars == <<dev, headers, order, ctrls, sls, buttons, stack, file, saved, exc, rej, call>>

----------------------------------------------------------------------------
(* Bounds of the model. *)

\* the gain ranges over -IntMax .. IntMax
IntMax == 1
\* the longest control listing handed to get_ctls on its own
MaxLines == 3
\* the deepest handler nesting the interpreter allows (its recursion limit)
MaxDepth == 7

----------------------------------------------------------------------------
(* Python values and text. *)

PyInt(n) == [t |-> "int", n |-> n, s |-> <<>>]
PyStr(s) == [t |-> "str", n |-> 0, s |-> s]

\* a one-symbol word
W(sym) == <<sym>>

DigitSyms == <<"0", "1", "2", "3", "4", "5", "6", "7", "8", "9">>

IsDigitSym(c) == \E i \in 1..10 : DigitSyms[i] = c

DigitVal(c) == (CHOOSE i \in 1..10 : DigitSyms[i] = c) - 1

\* \w of the regular expressions: anything but punctuation
WordSym(c) == c \notin {"(", ")", ":", "=", "-", ",", " "}

RECURSIVE NatToStr(_)
NatToStr(n) ==
    IF n < 10 THEN <<DigitSyms[n + 1]>>
    ELSE NatToStr(n \div 10) \o <<DigitSyms[(n % 10) + 1]>>

\* how a decimal number is printed (str(val) on an int, printf in v4l2-ctl)
IntToStr(n) == IF n < 0 THEN <<"-">> \o NatToStr(-n) ELSE NatToStr(n)

\* str.isdigit(): non-empty and digits only, so a minus sign fails it
str_isdigit(s) == Len(s) > 0 /\ \A i \in 1..Len(s) : IsDigitSym(s[i])

RECURSIVE StrToNat(_)
StrToNat(s) ==
    IF Len(s) = 0 THEN 0
    ELSE 10 * StrToNat(SubSeq(s, 1, Len(s) - 1)) + DigitVal(s[Len(s)])

\* int(s): [ok, n]; ok = FALSE stands for ValueError
py_int(s) ==
    IF Len(s) > 0 /\ s[1] = "-"
    THEN IF str_isdigit(Tail(s))
         THEN [ok |-> TRUE, n |-> 0 - StrToNat(Tail(s))]
         ELSE [ok |-> FALSE, n |-> 0]
    ELSE IF str_isdigit(s)
         THEN [ok |-> TRUE, n |-> StrToNat(s)]
         ELSE [ok |-> FALSE, n |-> 0]

\* str(val)
py_str(v) == IF v.t = "int" THEN IntToStr(v.n) ELSE v.s

\* truth value of a Python int or str
Truthy(v) == IF v.t = "int" THEN v.n # 0 ELSE v.s # <<>>

----------------------------------------------------------------------------
(* Insertion-ordered dicts: [keys |-> sequence of keys, map |-> function]. *)

EmptyDict == [keys |-> <<>>, map |-> <<>>]

HasKey(d, k) == \E i \in 1..Len(d.keys) : d.keys[i] = k

DictSet(d, k, v) ==
    IF HasKey(d, k)
    THEN [d EXCEPT !.map = [x \in DOMAIN d.map |-> IF x = k THEN v ELSE d.map[x]]]
    ELSE [keys |-> Append(d.keys, k), map |-> (k :> v) @@ d.map]

\* dict.get(k, default)
DictGet(c, k, default) == IF k \in DOMAIN c THEN c[k] ELSE default

----------------------------------------------------------------------------
(* The camera behind v4l2-ctl.                                             *)
(* Three controls, one of each type the program handles.  As on cameras    *)
(* whose driver takes over the gain in its automatic modes, the gain is    *)
(* inactive while the exposure menu is on automatic (any value but 0) or   *)
(* automatic gain is on.                                                   *)

Names == {"auto_exposure", "autogain", "gain"}

Cam ==
    [auto_exposure |-> [type |-> "menu", min |-> 0, max |-> 1, step |-> 1, default |-> 0],
     autogain      |-> [type |-> "bool", min |-> 0, max |-> 1, step |-> 1, default |-> 0],
     gain          |-> [type |-> "int", min |-> 0 - IntMax, max |-> IntMax, step |-> 1, default |-> 0]]

DevStates == { d \in [Names -> (0 - IntMax)..IntMax] :
                 \A n \in Names : d[n] \in Cam[n].min .. Cam[n].max }

\* the driver's inactive flag
DevInactive(d, n) == n = "gain" /\ (d["auto_exposure"] # 0 \/ d["autogain"] = 1)

AttrTok(a, n) == <<a, "=">> \o IntToStr(n)

\* one line of `v4l2-ctl -l` for control n
CtlLine(d, n) ==
    LET c == Cam[n]
        head == << W(n), W("0x0098"), <<"(", c.type, ")">>, W(":") >>
        range == IF c.type = "bool" THEN <<>>
                 ELSE << AttrTok("min", c.min), AttrTok("max", c.max) >>
        step == IF c.type = "int" THEN << AttrTok("step", c.step) >> ELSE <<>>
        vals == << AttrTok("default", c.default), AttrTok("value", d[n]) >>
        flags == IF DevInactive(d, n) THEN << <<"flags", "=", "inactive">> >> ELSE <<>>
    IN  head \o range \o step \o vals \o flags

HeaderLine == << W("User"), W("Controls") >>
BlankLine == <<>>

RECURSIVE CtlLines(_, _)
CtlLines(d, ord) ==
    IF ord = <<>> THEN <<>> ELSE <<CtlLine(d, Head(ord))>> \o CtlLines(d, Tail(ord))

\* the output of `v4l2-ctl -l`: section headers only from versions that print them
Listing(d, ord, hdr) ==
    IF hdr THEN <<BlankLine, HeaderLine, BlankLine>> \o CtlLines(d, ord)
    ELSE CtlLines(d, ord)

\* the output of `v4l2-ctl --get-ctrl name`
GetCtrlOutput(d, n) == << <<n, ":">>, IntToStr(d[n]) >>

\* `v4l2-ctl --set-ctrl name=value`: [ok, dev].  The command fails when the
\* value is no number or out of range, and whenever the driver refuses (fault).
SetCtrl(d, arg, fault) ==
    LET n == arg[1]
        v == py_int(SubSeq(arg, 3, Len(arg)))
    IN  IF n \in Names /\ Len(arg) >= 3 /\ arg[2] = "=" /\ v.ok
           /\ v.n \in Cam[n].min .. Cam[n].max /\ ~fault
        THEN [ok |-> TRUE, dev |-> [d EXCEPT ![n] = v.n]]
        ELSE [ok |-> FALSE, dev |-> d]

----------------------------------------------------------------------------
(* CameraControl.get_ctls *)

ATTRS == <<"min", "max", "step", "default", "value", "flags">>

IsLowerAlpha(sym) == sym \in {"int", "bool", "menu", "button"}

\* a token of the form (type) with a lower-case type
IsParenType(tok) ==
    Len(tok) = 3 /\ tok[1] = "(" /\ tok[3] = ")" /\ IsLowerAlpha(tok[2])

\* where RE_CTL matches: the first token that starts with a word, and the first
\* "(type)" token after it that a ":" follows
CtlMatch(line) ==
    LET starts == { i \in 1..Len(line) : Len(line[i]) > 0 /\ WordSym(line[i][1]) }
        i0 == CHOOSE i \in starts : \A k \in starts : i <= k
        types == { j \in 1..Len(line) :
                     /\ starts # {} /\ j > i0 /\ j < Len(line)
                     /\ IsParenType(line[j]) /\ line[j + 1] = W(":") }
    IN  IF starts = {} \/ types = {} THEN [found |-> FALSE, i |-> 0, j |-> 0]
        ELSE [found |-> TRUE, i |-> i0,
              j |-> CHOOSE j \in types : \A k \in types : j <= k]

\* RE_CTL.split(line): the whole line as the only piece when nothing matches,
\* else the text before, the three groups and the text after
RE_CTL_split(line) ==
    LET m == CtlMatch(line)
    IN  IF ~m.found THEN <<line>>
        ELSE << SubSeq(line, 1, m.i - 1), line[m.i][1], line[m.j][2],
                SubSeq(line, m.j + 2, Len(line)), <<>> >>

RECURSIVE WordRun(_)
WordRun(s) ==
    IF s = <<>> \/ ~WordSym(s[1]) THEN <<>> ELSE <<s[1]>> \o WordRun(Tail(s))

\* re_attr.search(rest) for attribute a: [found, val], val the group -?\w+
AttrSearch(a, rest) ==
    LET cap(tok) ==
            LET body == SubSeq(tok, 3, Len(tok))
                neg == body # <<>> /\ body[1] = "-"
                run == WordRun(IF neg THEN Tail(body) ELSE body)
            IN  IF run = <<>> THEN <<>> ELSE (IF neg THEN <<"-">> ELSE <<>>) \o run
        hits == { i \in 1..Len(rest) :
                    /\ Len(rest[i]) >= 3 /\ rest[i][1] = a /\ rest[i][2] = "="
                    /\ cap(rest[i]) # <<>> }
    IN  IF hits = {} THEN [found |-> FALSE, val |-> <<>>]
        ELSE [found |-> TRUE, val |-> cap(rest[CHOOSE i \in hits : \A k \in hits : i <= k])]

\* the inner loop of get_ctls: the attributes found on the line, ints converted
RECURSIVE ParseAttrs(_, _, _)
ParseAttrs(ctl, rest, k) ==
    IF k > Len(ATTRS) THEN ctl
    ELSE LET m == AttrSearch(ATTRS[k], rest)
             n == py_int(m.val)
             val == IF n.ok THEN PyInt(n.n) ELSE PyStr(m.val)
         IN  IF ~m.found THEN ParseAttrs(ctl, rest, k + 1)
             ELSE ParseAttrs((ATTRS[k] :> val) @@ ctl, rest, k + 1)

\* the body of the loop over the lines: [ctrls, exc].  m[1] on the one-piece
\* list of a line that does not match raises IndexError.
RECURSIVE ParseLines(_, _)
ParseLines(lines, acc) ==
    IF lines = <<>> THEN [ctrls |-> acc, exc |-> "none"]
    ELSE LET m == RE_CTL_split(Head(lines))
         IN  IF Len(m) = 0 THEN ParseLines(Tail(lines), acc)
             ELSE IF Len(m) < 4 THEN [ctrls |-> acc, exc |-> "IndexError"]
             ELSE ParseLines(Tail(lines),
                     DictSet(acc, m[2],
                         ParseAttrs("type" :> PyStr(W(m[3])), m[4], 1)))

get_ctls(lines) == ParseLines(lines, EmptyDict)

----------------------------------------------------------------------------
(* CameraControl.getValue, setValue, update *)

Inactive == PyStr(W("inactive"))

\* whether the cache flags the control inactive (line 89)
CachedInactive(c, name) == DictGet(c.map[name], "flags", PyStr(<<>>)) = Inactive

\* ctrls[name]["value"] = val
StoreValue(c, name, val) == DictSet(c, name, ("value" :> val) @@ c.map[name])

\* getValue(name): [ctrls, ret].  fail: the command exits with an error.
\* Any exception (failed command, no digit-only word, unknown name) gives 0.
getValue(c, d, name, fail) ==
    LET out == GetCtrlOutput(d, name)
        digits == SelectSeq(out, str_isdigit)
        v == StrToNat(digits[1])
    IN  IF fail \/ digits = <<>> \/ ~HasKey(c, name)
        THEN [ctrls |-> c, ret |-> 0]
        ELSE [ctrls |-> StoreValue(c, name, PyInt(v)), ret |-> v]

\* a setValue that caches the value before it runs the command
setValue_CachesFirst(c, d, name, val, fault) ==
    LET r == SetCtrl(d, <<name, "=">> \o py_str(val), fault)
    IN  IF CachedInactive(c, name)
        THEN [ctrls |-> c, dev |-> d, ret |-> TRUE, issued |-> FALSE]
        ELSE IF ~r.ok
        THEN [ctrls |-> StoreValue(c, name, val), dev |-> d, ret |-> FALSE, issued |-> TRUE]
        ELSE [ctrls |-> StoreValue(c, name, val), dev |-> r.dev,
              ret |-> TRUE, issued |-> TRUE]

\* setValue(name, val): [ctrls, dev, ret, issued].  fault: the driver refuses.
setValue(c, d, name, val, fault) ==
    LET r == SetCtrl(d, <<name, "=">> \o py_str(val), fault)
    IN  IF CachedInactive(c, name)
        THEN [ctrls |-> c, dev |-> d, ret |-> TRUE, issued |-> FALSE]
        ELSE IF ~r.ok
        THEN [ctrls |-> c, dev |-> d, ret |-> FALSE, issued |-> TRUE]
        ELSE [ctrls |-> StoreValue(c, name, val), dev |-> r.dev,
              ret |-> TRUE, issued |-> TRUE]

\* what the running handler has seen the device reject: any write, and a
\* write to a control the driver had active
NoRej == [any |-> FALSE, active |-> FALSE]

NoteRej(r, d, name, res) ==
    IF res.issued /\ ~res.ret
    THEN [any |-> TRUE, active |-> r.active \/ ~DevInactive(d, name)]
    ELSE r

\* one pass of update over the keys left: st = [ctrls, dev, log, rej, exc].
\* skip: the types the pass leaves out.  faults: the controls whose write the
\* driver refuses during this call.  A control without "default" raises
\* KeyError on reset and ends the call.
RECURSIVE UpdatePass(_, _, _, _, _)
UpdatePass(keys, st, skip, reset, faults) ==
    IF keys = <<>> \/ st.exc # "none" THEN st
    ELSE LET name == Head(keys)
             c == st.ctrls.map[name]
             attr == IF reset THEN "default" ELSE "value"
             res == setValue(st.ctrls, st.dev, name, c[attr], name \in faults)
         IN  IF c["type"].s[1] \in skip
             THEN UpdatePass(Tail(keys), st, skip, reset, faults)
             ELSE IF attr \notin DOMAIN c
             THEN [st EXCEPT !.exc = "KeyError"]
             ELSE UpdatePass(Tail(keys),
                     [ctrls |-> res.ctrls, dev |-> res.dev,
                      log |-> Append(st.log, name),
                      rej |-> NoteRej(st.rej, st.dev, name, res),
                      exc |-> "none"],
                     skip, reset, faults)

\* a first loop that leaves no type out
UpdateFirst_AllTypes(st, reset, faults) ==
    UpdatePass(st.ctrls.keys, st, {}, reset, faults)

\* the first loop: everything but int
UpdateFirst(st, reset, faults) == UpdatePass(st.ctrls.keys, st, {"int"}, reset, faults)

\* the second loop: everything but bool and menu
UpdateSecond(st, reset, faults) ==
    UpdatePass(st.ctrls.keys, st, {"bool", "menu"}, reset, faults)

\* update(reset): log is the sequence of setValue calls made
update(c, d, reset, faults) ==
    UpdateSecond(
        UpdateFirst([ctrls |-> c, dev |-> d, log |-> <<>>, rej |-> NoRej, exc |-> "none"],
                    reset, faults),
        reset, faults)

----------------------------------------------------------------------------
(* The starting state shared by the specifications. *)

\* listing orders: the int ahead of and behind the controls it depends on
Orders ==
    { <<"gain", "auto_exposure", "autogain">>,
      <<"autogain", "auto_exposure", "gain">> }

\* get_ctls on the listing of each device state, tabulated
ListedCtrls[d \in DevStates, ord \in Orders, hdr \in BOOLEAN] ==
    get_ctls(Listing(d, ord, hdr))

NoCall ==
    [op |-> "none", name |-> "", val |-> PyInt(0), arg |-> <<>>, cmdok |-> FALSE,
     retb |-> FALSE, retn |-> 0, log |-> <<>>, exc |-> "none"]

\* CameraControl.__init__ on a v4l2-ctl that prints control lines only
InitCamera ==
    /\ dev \in DevStates
    /\ order \in Orders
    /\ headers = FALSE
    /\ ctrls = ListedCtrls[dev, order, headers].ctrls

----------------------------------------------------------------------------
(* The .ccconf file: json.dump and json.load of the cache.                 *)
(* The text is a sequence of <<name, members>>, members a sequence of      *)
(* <<attribute, token>>; a number is printed bare, a string quoted.        *)

JsonOrder == <<"type">> \o ATTRS

\* a dump that quotes numbers as well
JsonToken_Quoted(v) ==
    [q |-> TRUE, s |-> IF v.t = "int" THEN IntToStr(v.n) ELSE v.s]

JsonToken(v) ==
    IF v.t = "int" THEN [q |-> FALSE, s |-> IntToStr(v.n)] ELSE [q |-> TRUE, s |-> v.s]

JsonValue(tok) == IF tok.q THEN PyStr(tok.s) ELSE PyInt(py_int(tok.s).n)

RECURSIVE JsonMembers(_, _)
JsonMembers(c, k) ==
    IF k > Len(JsonOrder) THEN <<>>
    ELSE (IF JsonOrder[k] \in DOMAIN c
          THEN << <<JsonOrder[k], JsonToken(c[JsonOrder[k]])>> >> ELSE <<>>)
         \o JsonMembers(c, k + 1)

RECURSIVE JsonObject(_)
JsonObject(members) ==
    IF members = <<>> THEN <<>>
    ELSE (Head(members)[1] :> JsonValue(Head(members)[2])) @@ JsonObject(Tail(members))

\* json.dump(self.camCtr.ctrls, fd)
json_dump(c) == [i \in 1..Len(c.keys) |-> <<c.keys[i], JsonMembers(c.map[c.keys[i]], 1)>>]

\* json.load(fd)
RECURSIVE json_load(_)
json_load(text) ==
    IF text = <<>> THEN EmptyDict
    ELSE DictSet(json_load(SubSeq(text, 1, Len(text) - 1)),
                 text[Len(text)][1], JsonObject(text[Len(text)][2]))

----------------------------------------------------------------------------
(* Window: widgets *)

Clamp(v, lo, hi) == IF v < lo THEN lo ELSE IF v > hi THEN hi ELSE v

\* QSlider.setValue(v): the value is bounded to the slider's range;
\* valueChanged is emitted only when the value changes
SliderSet(sl, v) ==
    LET nv == Clamp(v, sl.min, sl.max)
    IN  [sl |-> [sl EXCEPT !.value = nv], emitted |-> nv # sl.value]

\* the text and button_status of a toggle button showing value v
ButtonShow(v) ==
    IF Truthy(v) THEN [status |-> TRUE, text |-> "ON"] ELSE [status |-> FALSE, text |-> "OFF"]

BoolKeys(c) == { n \in DOMAIN c.map : c.map[n]["type"] = PyStr(W("bool")) }

----------------------------------------------------------------------------
(* Window: handlers, as frames of the call stack.                          *)
(* A frame is [h, name, val, pc, i, snap]: the handler, its control or     *)
(* action, the slider value, the position in the handler, and for sync the *)
(* index of its loop and the dict its loop iterates.  A nested sync        *)
(* rebinds self.camCtr.ctrls to a new dict; the outer loop keeps iterating *)
(* the dict it started with.                                               *)

Frame(h, name, val, pc) ==
    [h |-> h, name |-> name, val |-> val, pc |-> pc, i |-> 0, snap |-> EmptyDict]

Top == stack[Len(stack)]

SetTop(f) == [stack EXCEPT ![Len(stack)] = f]

\* an event loop that hands out events while a handler is running
Idle_Reentrant == exc = "none"

\* Qt's event loop hands the next user event to a handler only once the
\* previous handler has returned
Idle == stack = <<>> /\ exc = "none"

Running(h, pc) == stack # <<>> /\ exc = "none" /\ Top.h = h /\ Top.pc = pc

Actions == {"default", "sync", "update", "load", "save"}

\* the user drags an enabled slider: valueChanged calls sl_Change(val, name)
UserSlider ==
    /\ Idle
    /\ \E name \in DOMAIN sls :
       \E v \in sls[name].min .. sls[name].max :
          /\ sls[name].enabled
          /\ SliderSet(sls[name], v).emitted
          /\ sls' = [sls EXCEPT ![name] = SliderSet(sls[name], v).sl]
          /\ stack' = Append(stack, Frame("sl_Change", name, v, "call"))
    /\ UNCHANGED <<dev, headers, order, ctrls, buttons, file, saved, exc, rej, call>>

\* the user clicks a toggle button
UserButton ==
    /\ Idle
    /\ \E name \in DOMAIN buttons :
          stack' = Append(stack, Frame("button_Change", name, 0, "call"))
    /\ UNCHANGED <<dev, headers, order, ctrls, sls, buttons, file, saved, exc, rej, call>>

\* the user clicks one of the action buttons
UserAction ==
    /\ Idle
    /\ \E a \in Actions : stack' = Append(stack, Frame("action_Slot", a, 0, "call"))
    /\ UNCHANGED <<dev, headers, order, ctrls, sls, buttons, file, saved, exc, rej, call>>

\* a sync that never disables a slider
SyncEnabled_Always(c) == TRUE

\* the flags branch of the loop body of sync, lines 219-224
SyncEnabled(c) == ~(DictGet(c, "flags", PyStr(<<>>)) = Inactive)

\* The loop of sync from the position of the sync frame on top of g.stack, up
\* to the point where control leaves it; g = [stack, sls, buttons, exc].
\* self.buttons[name] or self.sls[name] of a control that has no widget (yet)
\* raises KeyError, which nothing catches.
\* A bool control sets its button.  Another control sets its slider: when the
\* slider's value changes, valueChanged calls sl_Change at once (the frame
\* pushed here) and the flags of this turn wait for its return.  When the loop
\* is through, sync returns to its caller.  The turns up to the first slider
\* that changes (turn k) are taken together.
sync_loop(g) ==
    LET f == g.stack[Len(g.stack)]
        keys == f.snap.keys
        ctl(j) == f.snap.map[keys[j]]
        isBool(j) == ctl(j)["type"] = PyStr(W("bool"))
        set(j) == SliderSet(g.sls[keys[j]], ctl(j)["value"].n)
        has(j) == IF isBool(j) THEN keys[j] \in DOMAIN g.buttons
                  ELSE keys[j] \in DOMAIN g.sls
        stops == { j \in f.i..Len(keys) : ~has(j) \/ (~isBool(j) /\ set(j).emitted) }
        k == IF stops = {} THEN Len(keys) + 1
             ELSE CHOOSE j \in stops : \A m \in stops : j <= m
        turn(n) == CHOOSE j \in 1..Len(keys) : keys[j] = n
        through(n) == \E j \in f.i..(k - 1) : keys[j] = n
        newButtons == [n \in DOMAIN g.buttons |->
                         IF through(n) THEN ButtonShow(ctl(turn(n))["value"])
                         ELSE g.buttons[n]]
        newSls == [n \in DOMAIN g.sls |->
                     IF through(n)
                     THEN [g.sls[n] EXCEPT !.enabled = SyncEnabled(ctl(turn(n)))]
                     ELSE IF k <= Len(keys) /\ keys[k] = n THEN set(k).sl
                     ELSE g.sls[n]]
    IN  IF k > Len(keys)
        THEN [stack |-> SubSeq(g.stack, 1, Len(g.stack) - 1),
              sls |-> newSls, buttons |-> newButtons, exc |-> g.exc]
        ELSE IF ~has(k)
        THEN [stack |-> <<>>, sls |-> newSls, buttons |-> newButtons,
              exc |-> "KeyError"]
        ELSE IF Len(g.stack) >= MaxDepth
        THEN [stack |-> <<>>, sls |-> newSls, buttons |-> newButtons,
              exc |-> "RecursionError"]
        ELSE [stack |-> Append([g.stack EXCEPT ![Len(g.stack)] =
                                   [f EXCEPT !.pc = "flags", !.i = k]],
                               Frame("sl_Change", keys[k], set(k).sl.value, "call")),
              sls |-> newSls, buttons |-> newButtons, exc |-> g.exc]

\* a sync that runs its loop over the cache as it is, without get_ctls
sync_NoListing(g, d) ==
    LET run == sync_loop([g EXCEPT !.stack =
                   Append(g.stack, [Frame("sync", "", 0, "loop")
                                      EXCEPT !.i = 1, !.snap = ctrls])])
    IN  [stack |-> run.stack, sls |-> run.sls, buttons |-> run.buttons,
         exc |-> run.exc, ctrls |-> ctrls]

\* sync called from the handler on top of g.stack: get_ctls rebinds the cache,
\* then the loop runs over the new dict.  [stack, sls, buttons, exc, ctrls]
sync(g, d) ==
    LET res == ListedCtrls[d, order, headers]
        run == sync_loop([g EXCEPT !.stack =
                   Append(g.stack, [Frame("sync", "", 0, "loop")
                                      EXCEPT !.i = 1, !.snap = res.ctrls])])
    IN  IF res.exc # "none"
        THEN [stack |-> <<>>, sls |-> g.sls, buttons |-> g.buttons,
              exc |-> res.exc, ctrls |-> res.ctrls]
        ELSE [stack |-> run.stack, sls |-> run.sls, buttons |-> run.buttons,
              exc |-> run.exc, ctrls |-> res.ctrls]

\* a handler called from sync's slider.setValue has returned: sync applies the
\* flags of that turn (lines 219-224) and goes on with its loop
sync_resume(g) ==
    LET f == g.stack[Len(g.stack)]
        name == f.snap.keys[f.i]
    IN  sync_loop([g EXCEPT
            !.sls = [g.sls EXCEPT ![name].enabled = SyncEnabled(f.snap.map[name])],
            !.stack = [g.stack EXCEPT ![Len(g.stack)] =
                          [f EXCEPT !.pc = "loop", !.i = @ + 1]]])

\* The loop of initUI from the position of the initUI frame on top of g.stack.
\* A bool control gets its button.  Another control gets a new slider with
\* the range of the control; sl.setValue(c["value"]) calls sl_Change at once
\* when it changes the value the slider came up with, and the slider is put
\* into self.sls only after that call has returned (line 178).
initUI_loop(g) ==
    LET f == g.stack[Len(g.stack)]
        keys == f.snap.keys
        ctl(j) == f.snap.map[keys[j]]
        isBool(j) == ctl(j)["type"] = PyStr(W("bool"))
        fresh(j) == [value |-> Clamp(0, ctl(j)["min"].n, ctl(j)["max"].n),
                     min |-> ctl(j)["min"].n, max |-> ctl(j)["max"].n,
                     enabled |-> TRUE]
        set(j) == SliderSet(fresh(j), ctl(j)["value"].n)
        stops == { j \in f.i..Len(keys) : ~isBool(j) /\ set(j).emitted }
        k == IF stops = {} THEN Len(keys) + 1
             ELSE CHOOSE j \in stops : \A m \in stops : j <= m
        turn(n) == CHOOSE j \in 1..Len(keys) : keys[j] = n
        through(n) == \E j \in f.i..(k - 1) : keys[j] = n
        newButtons ==
            [n \in (DOMAIN g.buttons) \cup { keys[j] : j \in { m \in f.i..(k - 1) : isBool(m) } } |->
                IF through(n) THEN ButtonShow(ctl(turn(n))["value"]) ELSE g.buttons[n]]
        newSls ==
            [n \in (DOMAIN g.sls) \cup { keys[j] : j \in { m \in f.i..(k - 1) : ~isBool(m) } } |->
                IF through(n)
                THEN [set(turn(n)).sl EXCEPT !.enabled = SyncEnabled(ctl(turn(n)))]
                ELSE g.sls[n]]
    IN  IF k > Len(keys)
        THEN [stack |-> SubSeq(g.stack, 1, Len(g.stack) - 1),
              sls |-> newSls, buttons |-> newButtons, exc |-> g.exc]
        ELSE [stack |-> Append([g.stack EXCEPT ![Len(g.stack)] =
                                   [f EXCEPT !.pc = "set", !.i = k]],
                               Frame("sl_Change", keys[k], set(k).sl.value, "call")),
              sls |-> newSls, buttons |-> newButtons, exc |-> g.exc]

\* sl_Change called from initUI's sl.setValue has returned: initUI applies the
\* flags (lines 174-176), stores the slider (line 178) and goes on
initUI_resume(g) ==
    LET f == g.stack[Len(g.stack)]
        name == f.snap.keys[f.i]
        c == f.snap.map[name]
        sl == [value |-> Clamp(c["value"].n, c["min"].n, c["max"].n),
               min |-> c["min"].n, max |-> c["max"].n, enabled |-> SyncEnabled(c)]
    IN  initUI_loop([g EXCEPT
            !.sls = [n \in (DOMAIN g.sls) \cup {name} |->
                        IF n = name THEN sl ELSE g.sls[n]],
            !.stack = [g.stack EXCEPT ![Len(g.stack)] =
                          [f EXCEPT !.pc = "loop", !.i = @ + 1]]])

\* the handler on top of the stack returns to whatever called it
return(g) ==
    LET below == SubSeq(g.stack, 1, Len(g.stack) - 1)
    IN  IF Len(g.stack) = 1 THEN [g EXCEPT !.stack = <<>>]
        ELSE IF below[Len(below)].h = "initUI"
        THEN initUI_resume([g EXCEPT !.stack = below])
        ELSE sync_resume([g EXCEPT !.stack = below])

Gui == [stack |-> stack, sls |-> sls, buttons |-> buttons, exc |-> exc]

AtRet == SetTop([Top EXCEPT !.pc = "ret"])

\* sl_Change: setValue; when it was accepted the handler returns at once,
\* else it runs sync first
sl_Change ==
    /\ Running("sl_Change", "call")
    /\ \E fault \in BOOLEAN :
       \E res \in {setValue(ctrls, dev, Top.name, PyInt(Top.val), fault)} :
          /\ dev' = res.dev
          /\ IF res.ret
             THEN \E back \in {return(Gui)} :
                    /\ ctrls' = res.ctrls
                    /\ stack' = back.stack /\ sls' = back.sls
                    /\ buttons' = back.buttons /\ exc' = back.exc
                    /\ rej' = IF back.stack = <<>> THEN NoRej ELSE rej
             ELSE \E sy \in {sync([Gui EXCEPT !.stack = AtRet], res.dev)} :
                    /\ ctrls' = sy.ctrls
                    /\ stack' = sy.stack /\ sls' = sy.sls
                    /\ buttons' = sy.buttons /\ exc' = sy.exc
                    /\ rej' = NoteRej(rej, dev, Top.name, res)
    /\ UNCHANGED <<headers, order, file, saved, call>>

\* button_Change: flip the button, write "0" or "1", then sync
button_Change ==
    /\ Running("button_Change", "call")
    /\ \E fault \in BOOLEAN :
       LET name == Top.name
           on == ~buttons[name].status
           flipped == [buttons EXCEPT ![name] =
                          [status |-> on, text |-> IF on THEN "ON" ELSE "OFF"]]
       IN  \E res \in {setValue(ctrls, dev, name, PyStr(W(IF on THEN "1" ELSE "0")), fault)} :
           \E sy \in {sync([Gui EXCEPT !.stack = AtRet, !.buttons = flipped], res.dev)} :
              /\ dev' = res.dev
              /\ rej' = NoteRej(rej, dev, name, res)
              /\ ctrls' = sy.ctrls
              /\ stack' = sy.stack /\ sls' = sy.sls
              /\ buttons' = sy.buttons /\ exc' = sy.exc
    /\ UNCHANGED <<headers, order, file, saved, call>>

\* action_Slot.  A dialog the user dismisses (here: Load with no file saved
\* yet) leaves only the closing sync.
action_Slot ==
    /\ Running("action_Slot", "call")
    /\ \E faults \in SUBSET Names :
       LET a == Top.name
           updates == a \in {"default", "update"} \/ (a = "load" /\ file # <<>>)
           loaded == IF a = "load" /\ file # <<>> THEN json_load(file) ELSE ctrls
       IN  /\ ~updates => faults = {}
           /\ \E res \in {IF updates THEN update(loaded, dev, a = "default", faults)
                           ELSE [ctrls |-> ctrls, dev |-> dev, log |-> <<>>,
                                 rej |-> NoRej, exc |-> "none"]} :
                 /\ dev' = res.dev
                 /\ rej' = res.rej
                 /\ file' = IF a = "save" THEN json_dump(ctrls) ELSE file
                 /\ saved' = IF a = "save" THEN ctrls ELSE saved
                 /\ IF res.exc = "none"
                    THEN \E sy \in {sync([Gui EXCEPT !.stack = AtRet], res.dev)} :
                           /\ ctrls' = sy.ctrls
                           /\ stack' = sy.stack /\ sls' = sy.sls
                           /\ buttons' = sy.buttons /\ exc' = sy.exc
                    ELSE /\ ctrls' = res.ctrls
                         /\ stack' = <<>> /\ exc' = res.exc
                         /\ UNCHANGED <<sls, buttons>>
    /\ UNCHANGED <<headers, order, call>>

\* a handler returns after its sync; the event loop is idle again when the
\* outermost one does
handler_return ==
    /\ stack # <<>> /\ exc = "none"
    /\ Top.h # "sync" /\ Top.pc = "ret"
    /\ \E back \in {return(Gui)} :
           /\ stack' = back.stack /\ sls' = back.sls
           /\ buttons' = back.buttons /\ exc' = back.exc
           /\ rej' = IF back.stack = <<>> THEN NoRej ELSE rej
    /\ UNCHANGED <<dev, headers, order, ctrls, file, saved, call>>

\* Window.__init__: initUI builds the widgets from the cache
initUI ==
    /\ Running("initUI", "loop")
    /\ \E run \in {initUI_loop(Gui)} :
          /\ stack' = run.stack /\ sls' = run.sls
          /\ buttons' = run.buttons /\ exc' = run.exc
    /\ UNCHANGED <<dev, headers, order, ctrls, file, saved, rej, call>>

NoWidgets == [n \in {} |-> 0]

\* main: the cache is read, the window is about to build its widgets
Init ==
    /\ InitCamera
    /\ sls = NoWidgets
    /\ buttons = NoWidgets
    /\ stack = <<[Frame("initUI", "", 0, "loop") EXCEPT !.i = 1, !.snap = ctrls]>>
    /\ file = <<>>
    /\ saved = EmptyDict
    /\ exc = "none"
    /\ rej = NoRej
    /\ call = NoCall

HandlerStep == sl_Change \/ button_Change \/ action_Slot \/ handler_return

Next == initUI \/ UserSlider \/ UserButton \/ UserAction \/ HandlerStep

Spec == Init /\ [][Next]_vars

----------------------------------------------------------------------------
(* SpecCC: CameraControl driven directly, one call per step. *)

\* values handed to setValue: in and out of range, and the strings of button_Change
SetVals ==
    { PyInt(v) : v \in (0 - IntMax - 1)..(IntMax + 1) } \cup { PyStr(W("0")), PyStr(W("1")) }

GuiIdle ==
    /\ sls = NoWidgets /\ buttons = NoWidgets /\ stack = <<>> /\ file = <<>>
    /\ saved = EmptyDict /\ exc = "none" /\ rej = NoRej

\* the cache is the listing read at some earlier state of the device
InitCC ==
    /\ dev \in DevStates
    /\ order \in Orders
    /\ headers = FALSE
    /\ \E d0 \in DevStates : ctrls = get_ctls(Listing(d0, order, headers)).ctrls
    /\ GuiIdle
    /\ call = NoCall

CC_setValue ==
    /\ call.op = "none"
    /\ \E name \in Names, val \in SetVals, fault \in BOOLEAN :
        LET res == setValue(ctrls, dev, name, val, fault)
        IN  /\ ctrls' = res.ctrls
            /\ dev' = res.dev
            /\ call' = [NoCall EXCEPT !.op = "setValue", !.name = name, !.val = val,
                           !.cmdok = SetCtrl(dev, <<name, "=">> \o py_str(val), fault).ok,
                           !.retb = res.ret]
            /\ UNCHANGED <<headers, order, sls, buttons, stack, file, saved, exc, rej>>

CC_getValue ==
    /\ call.op = "none"
    /\ \E name \in Names, fail \in BOOLEAN :
        LET res == getValue(ctrls, dev, name, fail)
        IN  /\ ctrls' = res.ctrls
            /\ call' = [NoCall EXCEPT !.op = "getValue", !.name = name,
                           !.cmdok = ~fail, !.retn = res.ret]
            /\ UNCHANGED <<dev, headers, order, sls, buttons, stack, file, saved, exc, rej>>

CC_update ==
    /\ call.op = "none"
    /\ \E reset \in BOOLEAN, faults \in SUBSET Names :
        LET res == update(ctrls, dev, reset, faults)
        IN  /\ ctrls' = res.ctrls
            /\ dev' = res.dev
            /\ call' = [NoCall EXCEPT !.op = "update", !.retb = reset,
                           !.log = res.log, !.exc = res.exc]
            /\ UNCHANGED <<headers, order, sls, buttons, stack, file, saved, exc, rej>>

CC_get_ctls ==
    /\ call.op = "none"
    /\ LET res == get_ctls(Listing(dev, order, headers))
       IN
        /\ ctrls' = res.ctrls
        /\ call' = [NoCall EXCEPT !.op = "get_ctls", !.exc = res.exc]
        /\ UNCHANGED <<dev, headers, order, sls, buttons, stack, file, saved, exc, rej>>

NextCC == CC_setValue \/ CC_getValue \/ CC_update \/ CC_get_ctls

SpecCC == InitCC /\ [][NextCC]_vars

----------------------------------------------------------------------------
(* SpecParse: get_ctls applied to listings of up to MaxLines lines. *)

SampleDevs ==
    { [n \in Names |-> Cam[n].default], [n \in Names |-> IF n = "gain" THEN 0 - 1 ELSE 1] }

LineSamples ==
    {HeaderLine, BlankLine} \cup { CtlLine(d, n) : d \in SampleDevs, n \in Names }

Listings == UNION { [1..k -> LineSamples] : k \in 1..MaxLines }

\* the lines RE_CTL matches
MatchingLines(lines) == { i \in 1..Len(lines) : CtlMatch(lines[i]).found }

\* a device lists every control once
DistinctNames(lines) ==
    \A i, j \in MatchingLines(lines) : i # j => lines[i][1] # lines[j][1]

InitParse ==
    /\ dev = [n \in Names |-> Cam[n].default]
    /\ order = <<>>
    /\ headers = FALSE
    /\ ctrls = EmptyDict
    /\ GuiIdle
    /\ \E lines \in Listings :
          /\ DistinctNames(lines)
          /\ call = [NoCall EXCEPT !.arg = lines]

Parse_get_ctls ==
    /\ call.op = "none"
    /\ LET res == get_ctls(call.arg)
       IN  /\ ctrls' = res.ctrls
           /\ call' = [call EXCEPT !.op = "get_ctls", !.exc = res.exc]
    /\ UNCHANGED <<dev, headers, order, sls, buttons, stack, file, saved, exc, rej>>

NextParse == Parse_get_ctls

SpecParse == InitParse /\ [][NextParse]_vars

----------------------------------------------------------------------------
(* Claims about CameraControl. *)

CtlType(c, name) == c.map[name]["type"].s[1]

\* C1: in update, with and without reset, every setValue call for a bool or
\* menu control comes before the first setValue call for an int control,
\* whatever the order of the controls in the cache.
C1_BoolMenuBeforeInt ==
    call.op = "update" =>
        \A i, j \in 1..Len(call.log) :
            (CtlType(ctrls, call.log[i]) = "int"
                /\ CtlType(ctrls, call.log[j]) \in {"bool", "menu"}) => j < i

\* an update with reset over a cache that lists an int ahead of a bool and a menu
C1_Witness ==
    /\ call.op = "update" /\ call.retb
    /\ Len(call.log) = Cardinality(Names)
    /\ CtlType(ctrls, ctrls.keys[1]) = "int"
    /\ CtlType(ctrls, call.log[1]) # "int"

\* C2: setValue on a control the cache does not flag inactive: a rejected set
\* command gives False and leaves the cache as it was; an accepted one gives
\* True and caches val.
C2_SetValueOutcome ==
    [][(call'.op = "setValue" /\ ~CachedInactive(ctrls, call'.name)) =>
          IF call'.cmdok
          THEN call'.retb /\ ctrls'.map[call'.name]["value"] = call'.val
                 /\ call'.exc = "none"
          ELSE ~call'.retb /\ ctrls' = ctrls /\ call'.exc = "none"]_vars

\* a rejected write to a control the cache holds active, with another value cached
C2_Witness ==
    /\ call.op = "setValue" /\ ~call.cmdok /\ ~call.retb
    /\ ~CachedInactive(ctrls, call.name)
    /\ call.val.t = "int" /\ call.val.n \in Cam[call.name].min .. Cam[call.name].max
    /\ ctrls.map[call.name]["value"] # call.val

\* C6 (as claimed): a failed get command gives 0 and leaves the cache alone; a
\* command that reports the value makes getValue return and cache that value,
\* for every value of the control's range.
C6_GetValueOutcome ==
    [][call'.op = "getValue" =>
          IF call'.cmdok
          THEN call'.retn = dev[call'.name]
                 /\ ctrls'.map[call'.name]["value"] = PyInt(dev[call'.name])
          ELSE call'.retn = 0 /\ ctrls' = ctrls]_vars

\* C10 (as claimed): get_ctls skips the lines the pattern does not match,
\* raises nothing, and caches one entry per matching line.
C10_SkipsOtherLines ==
    call.op = "get_ctls" =>
        /\ call.exc = "none"
        /\ Len(ctrls.keys) = Cardinality(MatchingLines(call.arg))
        /\ \A i \in MatchingLines(call.arg) :
              /\ HasKey(ctrls, call.arg[i][1][1])
              /\ ctrls.map[call.arg[i][1][1]]["type"] = PyStr(W(call.arg[i][3][2]))

----------------------------------------------------------------------------
(* Claims about Window. *)

\* every toggle button shows the device's value
ButtonsMirror ==
    \A n \in DOMAIN buttons :
        buttons[n] = [status |-> dev[n] # 0, text |-> IF dev[n] # 0 THEN "ON" ELSE "OFF"]

\* every slider is enabled exactly when the device has its control active
EnabledMirror == \A n \in DOMAIN sls : sls[n].enabled = ~DevInactive(dev, n)

\* every slider stands at the device's value
ValuesMirror == \A n \in DOMAIN sls : sls[n].value = dev[n]

\* C3: when sl_Change returns after a rejected value, every slider position,
\* every toggle button and every slider's enabled state shows what the device
\* reports.
C3_ResyncAfterReject ==
    Running("sl_Change", "ret") => ButtonsMirror /\ EnabledMirror /\ ValuesMirror

\* the user's value was rejected and the slider has been moved back
C3_Witness ==
    /\ Running("sl_Change", "ret") /\ Len(stack) = 1
    /\ rej.any
    /\ sls[Top.name].value # Top.val

LoadRan(f) == f.h = "action_Slot" /\ f.name = "load" /\ file # <<>>

\* C4: Load reads back exactly the mapping Save wrote, and when Load completes
\* without a rejected write every control the saved mapping does not flag
\* inactive holds its saved value on the device.
C4_SaveLoadRestores ==
    /\ file # <<>> => json_load(file) = saved
    /\ (Running("action_Slot", "ret") /\ LoadRan(Top) /\ ~rej.any) =>
          \A n \in DOMAIN saved.map :
              ~CachedInactive(saved, n) => saved.map[n]["value"] = PyInt(dev[n])

\* Load has put a saved value back on the device: its sync is moving the
\* slider, which still showed the value the device had before
C4_Witness ==
    /\ Len(stack) = 3 /\ exc = "none" /\ LoadRan(stack[1]) /\ ~rej.any
    /\ Top.h = "sl_Change" /\ Top.pc = "call"
    /\ ~CachedInactive(saved, Top.name)
    /\ saved.map[Top.name]["value"] = PyInt(dev[Top.name])

Handlers == {"sl_Change", "button_Change", "action_Slot"}

IsHandler(f) == f.h \in Handlers

\* C5 (as claimed): a handler runs to completion before another handler
\* execution starts.
C5_OneHandlerAtATime ==
    Cardinality({ i \in 1..Len(stack) : IsHandler(stack[i]) }) <= 1

\* C5 (amended): handler executions nest, they never interleave.  The
\* outermost frame is initUI or a handler started from the idle event loop;
\* any other handler frame is an sl_Change called by the setValue of the
\* sync or initUI right below it, which waits at that turn of its loop; every
\* sync was called by the handler right below it, which waits for it to
\* return.
C5_HandlersNest ==
    \A i \in 1..Len(stack) :
        /\ i = 1 => (IsHandler(stack[i]) \/ stack[i].h = "initUI")
        /\ (i > 1 /\ IsHandler(stack[i])) =>
              /\ stack[i].h = "sl_Change"
              /\ \/ stack[i - 1].h = "sync" /\ stack[i - 1].pc = "flags"
                 \/ stack[i - 1].h = "initUI" /\ stack[i - 1].pc = "set"
              /\ stack[i - 1].snap.keys[stack[i - 1].i] = stack[i].name
        /\ (i > 1 /\ ~IsHandler(stack[i])) =>
              /\ stack[i].h = "sync"
              /\ IsHandler(stack[i - 1]) /\ stack[i - 1].pc = "ret"

\* an sl_Change about to write to the device inside the sync of action_Slot
C5_Witness ==
    /\ Len(stack) = 3 /\ stack[1].h = "action_Slot" /\ stack[2].h = "sync"
    /\ Top.h = "sl_Change" /\ Top.pc = "call"

\* C7: after button_Change the toggle buttons show the device's values, also
\* when the write was rejected, and each slider is enabled exactly when the
\* device's fresh listing does not flag its control inactive.
C7_ButtonChangeMirrors ==
    Running("button_Change", "ret") => ButtonsMirror /\ EnabledMirror

\* the write of button_Change was rejected and the button shows the old value
C7_Witness ==
    /\ Running("button_Change", "ret") /\ rej.any
    /\ \E n \in DOMAIN sls : ~sls[n].enabled

\* C8 (as claimed): after Default on a device that accepts every write to an
\* active control, every control the device reports active holds its default.
C8_DefaultResetsActive ==
    (Running("action_Slot", "ret") /\ Top.name = "default" /\ ~rej.active) =>
        \A n \in Names : ~DevInactive(dev, n) => dev[n] = Cam[n].default

\* the sliders that do not stand at the device's value
OffSliders == { n \in DOMAIN sls : sls[n].value # dev[n] }

\* the turns the loop of initUI has yet to take
InitLeft ==
    IF stack # <<>> /\ stack[1].h = "initUI"
    THEN Len(stack[1].snap.keys) + 1 - stack[1].i ELSE 0

\* what is left of a chain of nested calls: the sliders sync has yet to move
\* and the turns initUI has yet to take, then the frames yet to return, then
\* the call the innermost has yet to make
Measure ==
    (Cardinality(OffSliders) + InitLeft) * (2 * MaxDepth + 2) + 2 * Len(stack)
        + (IF stack # <<>> /\ Top.pc = "call" THEN 1 ELSE 0)

InSlChange == \E i \in 1..Len(stack) : stack[i].h = "sl_Change"

\* every step taken while an sl_Change is on the stack makes Measure smaller
\* and leaves a handler that can take its next step
ChainAdvances ==
    /\ Measure' < Measure
    /\ stack' # <<>> => (Top'.h \in Handlers \cup {"initUI"} /\ Top'.pc \in {"call", "ret", "loop"})

\* C9 (as claimed): handling a rejected slider value always terminates.  Every
\* step of a chain sl_Change -> sync -> slider.setValue -> sl_Change ends
\* without an exception, makes Measure smaller and leaves a handler that can
\* take its next step, so the chain has finite depth and the outermost
\* sl_Change returns.
C9_SlChangeReturns ==
    [][InSlChange => (exc' = "none" /\ ChainAdvances)]_vars

\* the same for the chains that start at a slider the user moved
C9_UserChainReturns ==
    [][(stack # <<>> /\ stack[1].h = "sl_Change") => (exc' = "none" /\ ChainAdvances)]_vars

\* a chain only ever ends early with the KeyError of a sync run by initUI
C9_OnlyInitUIFails ==
    [][InSlChange => (ChainAdvances \/ (exc' = "KeyError" /\ stack[1].h = "initUI"))]_vars

====
